---- MODULE Spec2Model ----
(***************************************************************************)
(* Model of MapSheetFetchByImage.py: one run of script_tool, i.e. the      *)
(* pipeline  imagery_query -> retrieve_and_build_geometry ->               *)
(* perform_spatial_selection -> print_sheet_no_count, together with the    *)
(* external collaborators it talks to (catalog, geometry endpoint, paged   *)
(* feature service, arcpy message sink, logger, derived output params).    *)
(*                                                                         *)
(* Python values are represented as follows:                               *)
(*   - a str is the sequence of its character codes ("T47N" is             *)
(*     <<84,52,55,78>>), so that sorted() and ", ".join() can be computed; *)
(*   - an optional value is None (the empty sequence) or Some(v) (<<v>>);  *)
(*   - a list is a sequence.                                               *)
(* Assumption on the feature service: every returned feature carries a     *)
(* textual sheet_no attribute.                                             *)
(***************************************************************************)
EXTENDS Integers, Sequences, FiniteSets, TLC

VARIABLES
    pc,             \* position of script_tool: start, login, imagery, geometry, paging, aggregate, done
    service,        \* the spatial feature service of this run (external world)
    object_id,      \* script_tool local: result of imagery_query (optional)
    polygon,        \* script_tool local: result of retrieve_and_build_geometry (optional)
    sheet_no_list,  \* perform_spatial_selection local: the accumulator
    offset,         \* perform_spatial_selection local: the page cursor
    catalogLog,     \* answers the imagery catalog gave to imagery_layer.query, in order
    httpLog,        \* answers the geometry endpoint gave to requests.get, in order
    pageLog,        \* page requests received by the feature service and their answers, in order
    params,         \* derived output parameters 5 and 6 (optional strings)
    messages,       \* arcpy messages (AddError / AddWarning / AddMessage), in order
    log             \* entries written through the logger, in order

vars == <<pc, service, object_id, polygon, sheet_no_list, offset, catalogLog,
          httpLog, pageLog, params, messages, log>>

----------------------------------------------------------------------------
(* Bounds of the model *)

\* number of full pages a service may serve before it must answer with a short one
MaxFullPages == 2

\* longest accumulated list handed to the aggregator on its own
MaxListLen == 5

----------------------------------------------------------------------------
(* Program constants *)

page_size == 2000
web_mercator_sr == 3857
HTTP_OK == 200
MAPSHEET_VALUE == 5
MAPSHEET_COUNT == 6

----------------------------------------------------------------------------
(* Python values *)

None == <<>>
Some(v) == <<v>>

Min(a, b) == IF a < b THEN a ELSE b
Max(a, b) == IF a < b THEN b ELSE a

\* str(n) for a non-negative int: its decimal digits
RECURSIVE Str(_)
Str(n) == IF n < 10 THEN <<48 + n>> ELSE Str(n \div 10) \o <<48 + (n % 10)>>

\* s < t for two str values: lexicographic order on code points
RECURSIVE StrLess(_, _)
StrLess(s, t) ==
    IF t = <<>> THEN FALSE
    ELSE IF s = <<>> THEN TRUE
    ELSE IF s[1] # t[1] THEN s[1] < t[1]
    ELSE StrLess(Tail(s), Tail(t))

\* set(list)
ToSet(list) == {list[i] : i \in 1..Len(list)}

\* sorted(set_of_str): ascending list of the members
RECURSIVE Sorted(_)
Sorted(S) ==
    IF S = {} THEN <<>>
    ELSE LET m == CHOOSE x \in S : \A y \in S \ {x} : StrLess(x, y)
         IN  <<m>> \o Sorted(S \ {m})

\* sep.join(list_of_str)
RECURSIVE Join(_, _)
Join(sep, list) ==
    IF list = <<>> THEN <<>>
    ELSE IF Len(list) = 1 THEN list[1]
    ELSE list[1] \o sep \o Join(sep, Tail(list))

----------------------------------------------------------------------------
(* Sinks: arcpy messages and logger entries *)

Msg(sev, text) == [sev |-> sev, text |-> text]
LogEntry(level, event, ctx) == [level |-> level, event |-> event, ctx |-> ctx]

\* what a called function hands back to script_tool: whether an exception
\* escaped it, its return value, and what it wrote to the two sinks
Outcome(raised, ret, msgs, logs) ==
    [raised |-> raised, ret |-> ret, msgs |-> msgs, logs |-> logs]

----------------------------------------------------------------------------
(* External world: imagery catalog *)

\* answers of imagery_layer.query: it raises, or returns a mapping that may
\* lack the "features" key, or whose feature list has 0, 1 or 2 entries
CatalogAnswers ==
    { [raises |-> TRUE,  has_features |-> FALSE, features |-> <<>>],
      [raises |-> FALSE, has_features |-> FALSE, features |-> <<>>],
      [raises |-> FALSE, has_features |-> TRUE,  features |-> <<>>],
      [raises |-> FALSE, has_features |-> TRUE,  features |-> <<42>>],
      [raises |-> FALSE, has_features |-> TRUE,  features |-> <<43, 42>>] }

(* External world: geometry endpoint *)

Ring(is_list, points) == [is_list |-> is_list, points |-> points]
Json(has_geometry, has_rings, rings) ==
    [has_geometry |-> has_geometry, has_rings |-> has_rings, rings |-> rings]
Body(parses, json) == [parses |-> parses, json |-> json]

Square == << <<0, 0>>, <<0, 10>>, <<10, 10>>, <<10, 0>>, <<0, 0>> >>
Triangle == << <<1, 1>>, <<5, 1>>, <<1, 1>> >>

\* response bodies: not JSON; JSON without "geometry"; geometry without
\* "rings"; empty rings; first ring not a list; first ring empty;
\* one well-formed ring; two rings
Bodies ==
    { Body(FALSE, Json(FALSE, FALSE, <<>>)),
      Body(TRUE,  Json(FALSE, FALSE, <<>>)),
      Body(TRUE,  Json(TRUE,  FALSE, <<>>)),
      Body(TRUE,  Json(TRUE,  TRUE,  <<>>)),
      Body(TRUE,  Json(TRUE,  TRUE,  <<Ring(FALSE, <<>>)>>)),
      Body(TRUE,  Json(TRUE,  TRUE,  <<Ring(TRUE, <<>>)>>)),
      Body(TRUE,  Json(TRUE,  TRUE,  <<Ring(TRUE, Square)>>)),
      Body(TRUE,  Json(TRUE,  TRUE,  <<Ring(TRUE, Triangle), Ring(TRUE, Square)>>)) }

\* answers of requests.get: it raises (no connection), or a response
HttpAnswers ==
    { [raises |-> TRUE, status_code |-> 0, body |-> Body(FALSE, Json(FALSE, FALSE, <<>>))] }
    \cup { [raises |-> FALSE, status_code |-> HTTP_OK, body |-> b] : b \in Bodies }
    \cup { [raises |-> FALSE, status_code |-> 500, body |-> b] :
             b \in { Body(FALSE, Json(FALSE, FALSE, <<>>)),
                     Body(TRUE,  Json(TRUE,  TRUE,  <<Ring(TRUE, Square)>>)) } }

(* External world: spatial feature service *)

T46N == <<84, 52, 54, 78>>
T47N == <<84, 52, 55, 78>>
T48N == <<84, 52, 56, 78>>
T49N == <<84, 52, 57, 78>>
T50N == <<84, 53, 48, 78>>

\* the sheet_no of the matching records, in service order (with duplicates);
\* record i carries SheetCycle[((i - 1) % 7) + 1]
SheetCycle == <<T48N, T47N, T47N, T49N, T48N, T50N, T46N>>
SheetNoOf(i) == SheetCycle[((i - 1) % Len(SheetCycle)) + 1]

\* records first+1 .. first+n of the service's ordered list
Records(first, n) == [i \in 1..n |-> SheetNoOf(first + i)]

\* a page-limited service holds N records and serves at most `limit` per request
RecordCounts ==
    { k * page_size + d : k \in 0..MaxFullPages, d \in {-1, 0, 1} } \cap Nat
Limits == {1, page_size - 1, page_size, page_size + 1}

\* the services a run may face: page-limited ones, and one that answers
\* every request with a page of any size it likes
Services ==
    { [kind |-> "limited", N |-> n, limit |-> l] : n \in RecordCounts, l \in Limits }
    \cup { [kind |-> "any", N |-> 0, limit |-> 0] }

\* page sizes the "any" service may answer with after `served` requests
PageCounts(served) ==
    IF served < MaxFullPages THEN {0, 1, page_size - 1, page_size}
    ELSE {0, 1, page_size - 1}

\* what feature_layer.query(result_offset=off, result_record_count=count)
\* can do: raise, or return a feature list
PageAnswers(svc, off, count, served) ==
    { [raises |-> TRUE, features |-> <<>>] }
    \cup IF svc.kind = "limited"
         THEN { [raises |-> FALSE,
                 features |-> Records(off, Max(0, Min(Min(svc.limit, count), svc.N - off)))] }
         ELSE { [raises |-> FALSE, features |-> Records(off, n)] : n \in PageCounts(served) }

----------------------------------------------------------------------------
(* The program's functions *)

\* login_to_gis: GIS(...) connects or raises
login_to_gis(connects) ==
    Outcome(~connects, None, <<>>,
            <<LogEntry("INFO", "Connecting to GIS with Portal URL", {"portal_url"})>>)

\* imagery_query that catches the exception of imagery_layer.query and
\* answers as if nothing was found
imagery_querySwallows(answer) ==
    LET info == LogEntry("INFO", "Querying imagery layer with where clause", {"where_clause"})
    IN  IF ~answer.raises /\ answer.has_features /\ Len(answer.features) > 0
        THEN Outcome(FALSE, Some(answer.features[1]), <<>>, <<info>>)
        ELSE Outcome(FALSE, None,
                     <<Msg("warning", "No results found for the given image name.")>>,
                     <<info, LogEntry("WARNING", "No results found for the given image name.", {})>>)

\* imagery_query without "len(query_result['features']) > 0": indexing the
\* empty feature list raises IndexError
imagery_queryIndexesEmpty(answer) ==
    LET info == LogEntry("INFO", "Querying imagery layer with where clause", {"where_clause"})
    IN  IF answer.raises
        THEN Outcome(TRUE, None, <<>>, <<info>>)
        ELSE IF answer.has_features
        THEN IF Len(answer.features) > 0
             THEN Outcome(FALSE, Some(answer.features[1]), <<>>, <<info>>)
             ELSE Outcome(TRUE, None, <<>>, <<info>>)
        ELSE Outcome(FALSE, None,
                     <<Msg("warning", "No results found for the given image name.")>>,
                     <<info, LogEntry("WARNING", "No results found for the given image name.", {})>>)

\* imagery_query: the first feature's OBJECTID, or None with a warning;
\* an exception of imagery_layer.query is not caught here
imagery_query(answer) ==
    LET info == LogEntry("INFO", "Querying imagery layer with where clause", {"where_clause"})
    IN  IF answer.raises
        THEN Outcome(TRUE, None, <<>>, <<info>>)
        ELSE IF answer.has_features /\ Len(answer.features) > 0
        THEN Outcome(FALSE, Some(answer.features[1]), <<>>, <<info>>)
        ELSE Outcome(FALSE, None,
                     <<Msg("warning", "No results found for the given image name.")>>,
                     <<info, LogEntry("WARNING", "No results found for the given image name.", {})>>)

\* arcpy.Point(*coords) with the two coordinates taken the wrong way round
PointSwapped(coords) == [X |-> coords[2], Y |-> coords[1]]

\* arcpy.Point(*coords)
Point(coords) == [X |-> coords[1], Y |-> coords[2]]

\* arcpy.Polygon(arcpy.Array([arcpy.Point(*coords) for coords in ring]), sr)
Polygon(ring, sr) == [ring |-> [i \in 1..Len(ring) |-> Point(ring[i])], sr |-> sr]

\* InvalidRings without "len(rings[0]) == 0"
InvalidRingsNoLenCheck(rings) ==
    \/ rings = <<>>
    \/ ~rings[1].is_list

\* the "basic validation" of the rings: not rings or not isinstance(rings[0], list)
\* or len(rings[0]) == 0
InvalidRings(rings) ==
    \/ rings = <<>>
    \/ ~rings[1].is_list
    \/ Len(rings[1].points) = 0

\* retrieve_and_build_geometry that reports a non-200 status but goes on to
\* parse the body
retrieve_and_build_geometryNoStatusReturn(answer) ==
    LET info  == LogEntry("INFO", "Retrieving image data from URL", {"image_url"})
        json  == answer.body.json
        rings == IF json.has_rings THEN json.rings ELSE <<>>
        pre   == IF answer.status_code = HTTP_OK THEN <<>>
                 ELSE <<Msg("error", "Failed to retrieve data from the URL.")>>
        prelog == IF answer.status_code = HTTP_OK THEN <<info>>
                  ELSE <<info, LogEntry("ERROR", "Failed to retrieve data from the URL.",
                                        {"status_code"})>>
    IN  IF answer.raises
        THEN Outcome(TRUE, None, <<>>, <<info>>)
        ELSE IF ~answer.body.parses
        THEN Outcome(FALSE, None,
                     pre \o <<Msg("error", "Failed to parse JSON.")>>,
                     prelog \o <<LogEntry("ERROR", "Failed to parse JSON.",
                                          {"response_text", "traceback"})>>)
        ELSE IF ~json.has_geometry
        THEN Outcome(TRUE, None, pre, prelog)
        ELSE IF rings = <<>> \/ ~rings[1].is_list \/ Len(rings[1].points) = 0
        THEN Outcome(FALSE, None,
                     pre \o <<Msg("error", "Error: Invalid ring geometry format.")>>, prelog)
        ELSE Outcome(FALSE, Some(Polygon(rings[1].points, web_mercator_sr)), pre, prelog)

\* retrieve_and_build_geometry that reads geometry["rings"] instead of
\* geometry.get("rings", []): a missing field raises KeyError
retrieve_and_build_geometryRingsKeyError(answer) ==
    LET info  == LogEntry("INFO", "Retrieving image data from URL", {"image_url"})
        json  == answer.body.json
    IN  IF answer.raises
        THEN Outcome(TRUE, None, <<>>, <<info>>)
        ELSE IF answer.status_code = HTTP_OK
        THEN IF ~answer.body.parses
             THEN Outcome(FALSE, None,
                          <<Msg("error", "Failed to parse JSON.")>>,
                          <<info, LogEntry("ERROR", "Failed to parse JSON.",
                                           {"response_text", "traceback"})>>)
             ELSE IF ~json.has_geometry \/ ~json.has_rings
             THEN Outcome(TRUE, None, <<>>, <<info>>)
             ELSE IF json.rings = <<>> \/ ~json.rings[1].is_list
                     \/ Len(json.rings[1].points) = 0
             THEN Outcome(FALSE, None,
                          <<Msg("error", "Error: Invalid ring geometry format.")>>,
                          <<info>>)
             ELSE Outcome(FALSE, Some(Polygon(json.rings[1].points, web_mercator_sr)),
                          <<>>, <<info>>)
        ELSE Outcome(FALSE, None,
                     <<Msg("error", "Failed to retrieve data from the URL.")>>,
                     <<info, LogEntry("ERROR", "Failed to retrieve data from the URL.",
                                      {"status_code"})>>)

\* retrieve_and_build_geometry: the polygon of the first ring, or None after
\* an AddError; response.json() raises ValueError (caught), a missing
\* "geometry" key raises KeyError (not caught), requests.get may raise
retrieve_and_build_geometry(answer) ==
    LET info  == LogEntry("INFO", "Retrieving image data from URL", {"image_url"})
        json  == answer.body.json
        rings == IF json.has_rings THEN json.rings ELSE <<>>
    IN  IF answer.raises
        THEN Outcome(TRUE, None, <<>>, <<info>>)
        ELSE IF answer.status_code = HTTP_OK
        THEN IF ~answer.body.parses
             THEN Outcome(FALSE, None,
                          <<Msg("error", "Failed to parse JSON.")>>,
                          <<info, LogEntry("ERROR", "Failed to parse JSON.",
                                           {"response_text", "traceback"})>>)
             ELSE IF ~json.has_geometry
             THEN Outcome(TRUE, None, <<>>, <<info>>)
             ELSE IF InvalidRings(rings)
             THEN Outcome(FALSE, None,
                          <<Msg("error", "Error: Invalid ring geometry format.")>>,
                          <<info>>)
             ELSE Outcome(FALSE, Some(Polygon(rings[1].points, web_mercator_sr)),
                          <<>>, <<info>>)
        ELSE Outcome(FALSE, None,
                     <<Msg("error", "Failed to retrieve data from the URL.")>>,
                     <<info, LogEntry("ERROR", "Failed to retrieve data from the URL.",
                                      {"status_code"})>>)

\* LoopBody without "if len(features) < page_size: break"
LoopBodyNoShortBreak(acc, off, answer) ==
    IF answer.raises
    THEN [acc |-> acc, off |-> off, brk |-> TRUE,
          msgs |-> <<Msg("error", "Error during paged query for SHEET_NO")>>,
          logs |-> <<LogEntry("ERROR", "Error during paged query for SHEET_NO",
                              {"exception", "traceback"})>>]
    ELSE IF answer.features = <<>>
    THEN [acc |-> acc, off |-> off, brk |-> TRUE, msgs |-> <<>>, logs |-> <<>>]
    ELSE [acc |-> acc \o answer.features, off |-> off + page_size, brk |-> FALSE,
          msgs |-> <<>>, logs |-> <<>>]

\* LoopBody whose except clause returns an empty list instead of the accumulator
LoopBodyDropsOnError(acc, off, answer) ==
    IF answer.raises
    THEN [acc |-> <<>>, off |-> off, brk |-> TRUE,
          msgs |-> <<Msg("error", "Error during paged query for SHEET_NO")>>,
          logs |-> <<LogEntry("ERROR", "Error during paged query for SHEET_NO",
                              {"exception", "traceback"})>>]
    ELSE IF answer.features = <<>>
    THEN [acc |-> acc, off |-> off, brk |-> TRUE, msgs |-> <<>>, logs |-> <<>>]
    ELSE [acc |-> acc \o answer.features, off |-> off + page_size,
          brk |-> Len(answer.features) < page_size, msgs |-> <<>>, logs |-> <<>>]

\* LoopBody whose except clause calls arcpy.AddError but not logger.error
LoopBodySilentError(acc, off, answer) ==
    IF answer.raises
    THEN [acc |-> acc, off |-> off, brk |-> TRUE,
          msgs |-> <<Msg("error", "Error during paged query for SHEET_NO")>>,
          logs |-> <<>>]
    ELSE IF answer.features = <<>>
    THEN [acc |-> acc, off |-> off, brk |-> TRUE, msgs |-> <<>>, logs |-> <<>>]
    ELSE [acc |-> acc \o answer.features, off |-> off + page_size,
          brk |-> Len(answer.features) < page_size, msgs |-> <<>>, logs |-> <<>>]

\* LoopBody that advances the offset by the number of features received
LoopBodyAdvanceByCount(acc, off, answer) ==
    IF answer.raises
    THEN [acc |-> acc, off |-> off, brk |-> TRUE,
          msgs |-> <<Msg("error", "Error during paged query for SHEET_NO")>>,
          logs |-> <<LogEntry("ERROR", "Error during paged query for SHEET_NO",
                              {"exception", "traceback"})>>]
    ELSE IF answer.features = <<>>
    THEN [acc |-> acc, off |-> off, brk |-> TRUE, msgs |-> <<>>, logs |-> <<>>]
    ELSE [acc |-> acc \o answer.features, off |-> off + Len(answer.features),
          brk |-> Len(answer.features) < page_size, msgs |-> <<>>, logs |-> <<>>]

\* LoopBody that reports an empty page as an error
LoopBodyEmptyIsError(acc, off, answer) ==
    IF answer.raises \/ answer.features = <<>>
    THEN [acc |-> acc, off |-> off, brk |-> TRUE,
          msgs |-> <<Msg("error", "Error during paged query for SHEET_NO")>>,
          logs |-> <<LogEntry("ERROR", "Error during paged query for SHEET_NO",
                              {"exception", "traceback"})>>]
    ELSE [acc |-> acc \o answer.features, off |-> off + page_size,
          brk |-> Len(answer.features) < page_size, msgs |-> <<>>, logs |-> <<>>]

\* one iteration of the while loop of perform_spatial_selection on the
\* answer to its page request: the new accumulator and offset, whether the
\* loop is left, and what is written to the sinks
LoopBody(acc, off, answer) ==
    IF answer.raises
    THEN [acc |-> acc, off |-> off, brk |-> TRUE,
          msgs |-> <<Msg("error", "Error during paged query for SHEET_NO")>>,
          logs |-> <<LogEntry("ERROR", "Error during paged query for SHEET_NO",
                              {"exception", "traceback"})>>]
    ELSE IF answer.features = <<>>
    THEN [acc |-> acc, off |-> off, brk |-> TRUE, msgs |-> <<>>, logs |-> <<>>]
    ELSE [acc |-> acc \o answer.features,
          off |-> off + page_size,
          brk |-> Len(answer.features) < page_size,
          msgs |-> <<>>, logs |-> <<>>]

\* sorted(..., reverse=True)
RECURSIVE SortedDescending(_)
SortedDescending(S) ==
    IF S = {} THEN <<>>
    ELSE LET m == CHOOSE x \in S : \A y \in S \ {x} : StrLess(y, x)
         IN  <<m>> \o SortedDescending(S \ {m})

\* print_sheet_no_count that sorts the wrong way round
print_sheet_no_countDescending(list) ==
    LET unique_sheet_no   == ToSet(list)
        sorted_sheet_list == SortedDescending(unique_sheet_no)
        sheets_str        == <<91>> \o Join(<<44, 32>>, sorted_sheet_list) \o <<93>>
        total             == Cardinality(unique_sheet_no)
    IN  [sheets_str |-> sheets_str, count_str |-> Str(total)]

\* print_sheet_no_count whose count is len(sheet_no_list)
print_sheet_no_countRawCount(list) ==
    LET unique_sheet_no   == ToSet(list)
        sorted_sheet_list == Sorted(unique_sheet_no)
        sheets_str        == <<91>> \o Join(<<44, 32>>, sorted_sheet_list) \o <<93>>
    IN  [sheets_str |-> sheets_str, count_str |-> Str(Len(list))]

\* Summarize whose count is len(sheet_no_list)
SummarizeCountsRaw(list) ==
    [seq |-> Sorted(ToSet(list)), count |-> Len(list)]

\* list without the elements equal to their predecessor
RECURSIVE DedupAdjacent(_)
DedupAdjacent(list) ==
    IF Len(list) < 2 THEN list
    ELSE IF list[1] = list[2] THEN DedupAdjacent(Tail(list))
    ELSE <<list[1]>> \o DedupAdjacent(Tail(list))

\* sorted(list), duplicates kept
RECURSIVE SortList(_)
SortList(list) ==
    IF list = <<>> THEN <<>>
    ELSE LET i == CHOOSE j \in 1..Len(list) :
                      \A k \in 1..Len(list) : ~StrLess(list[k], list[j])
         IN  <<list[i]>> \o SortList(SubSeq(list, 1, i - 1) \o SubSeq(list, i + 1, Len(list)))

\* Summarize that removes only adjacent duplicates, and does so before sorting
SummarizeDedupAdjacent(list) ==
    [seq |-> SortList(DedupAdjacent(list)), count |-> Len(DedupAdjacent(list))]

\* the summary print_sheet_no_count computes: the sorted list of the unique
\* sheet numbers and their number
Summarize(list) ==
    LET unique_sheet_no == ToSet(list)
    IN  [seq |-> Sorted(unique_sheet_no), count |-> Cardinality(unique_sheet_no)]

\* print_sheet_no_count: the two strings handed to SetParameterAsText
print_sheet_no_count(list) ==
    LET sorted_sheet_list == Summarize(list).seq
        sheets_str        == <<91>> \o Join(<<44, 32>>, sorted_sheet_list) \o <<93>>
        total             == Summarize(list).count
    IN  [sheets_str |-> sheets_str, count_str |-> Str(total)]

\* the except clause of script_tool
Handler ==
    [msgs |-> <<Msg("error", "Error during query execution")>>,
     logs |-> <<LogEntry("ERROR", "Error during query execution",
                         {"exception", "traceback"})>>]

----------------------------------------------------------------------------
(* script_tool, one action per stage *)

Init ==
    /\ pc = "start"
    /\ service \in Services
    /\ object_id = None
    /\ polygon = None
    /\ sheet_no_list = <<>>
    /\ offset = 0
    /\ catalogLog = <<>>
    /\ httpLog = <<>>
    /\ pageLog = <<>>
    /\ params = [i \in {MAPSHEET_VALUE, MAPSHEET_COUNT} |-> None]
    /\ messages = <<>>
    /\ log = <<>>

\* the sinks after a call that may have raised into the except clause
Sinks(out) ==
    /\ messages' = messages \o out.msgs \o (IF out.raised THEN Handler.msgs ELSE <<>>)
    /\ log' = log \o out.logs \o (IF out.raised THEN Handler.logs ELSE <<>>)

\* input validation: "if not portal_url"
Validate ==
    /\ pc = "start"
    /\ \E portal_url_given \in BOOLEAN :
          IF ~portal_url_given
          THEN /\ messages' = Append(messages, Msg("error", "All input parameters are required."))
               /\ log' = Append(log, LogEntry("ERROR", "All input parameters are required.", {}))
               /\ pc' = "done"
          ELSE /\ pc' = "login"
               /\ UNCHANGED <<messages, log>>
    /\ UNCHANGED <<service, object_id, polygon, sheet_no_list, offset, catalogLog,
                   httpLog, pageLog, params>>

\* 1. Login to GIS
Login ==
    /\ pc = "login"
    /\ \E connects \in BOOLEAN :
          LET out == login_to_gis(connects)
          IN  /\ Sinks(out)
              /\ pc' = IF out.raised THEN "done" ELSE "imagery"
    /\ UNCHANGED <<service, object_id, polygon, sheet_no_list, offset, catalogLog,
                   httpLog, pageLog, params>>

\* 2. Imagery Query, and the else branch of "if object_id is not None"
ImageryQuery ==
    /\ pc = "imagery"
    /\ \E answer \in CatalogAnswers :
          LET out == imagery_query(answer)
          IN  /\ catalogLog' = Append(catalogLog, answer)
              /\ IF out.raised
                 THEN /\ Sinks(out)
                      /\ pc' = "done"
                      /\ UNCHANGED object_id
                 ELSE IF out.ret # None
                 THEN /\ Sinks(out)
                      /\ object_id' = out.ret
                      /\ pc' = "geometry"
                 ELSE /\ messages' = messages \o out.msgs \o
                           <<Msg("info", "No valid OBJECTID found. Exiting without further processing.")>>
                      /\ log' = log \o out.logs
                      /\ object_id' = out.ret
                      /\ pc' = "done"
    /\ UNCHANGED <<service, polygon, sheet_no_list, offset, httpLog, pageLog, params>>

\* 3. Retrieve and build geometry; on a polygon, enter perform_spatial_selection
RetrieveGeometry ==
    /\ pc = "geometry"
    /\ \E answer \in HttpAnswers :
          LET out == retrieve_and_build_geometry(answer)
          IN  /\ httpLog' = Append(httpLog, answer)
              /\ Sinks(out)
              /\ IF out.raised
                 THEN /\ pc' = "done"
                      /\ UNCHANGED <<polygon, sheet_no_list, offset>>
                 ELSE /\ polygon' = out.ret
                      /\ IF out.ret # None
                         THEN /\ pc' = "paging"
                              /\ sheet_no_list' = <<>>
                              /\ offset' = 0
                         ELSE /\ pc' = "done"
                              /\ UNCHANGED <<sheet_no_list, offset>>
    /\ UNCHANGED <<service, object_id, catalogLog, pageLog, params>>

\* 4. Perform spatial selection: one page request and its ingestion
QueryPage ==
    /\ pc = "paging"
    /\ \E answer \in PageAnswers(service, offset, page_size, Len(pageLog)) :
          LET step == LoopBody(sheet_no_list, offset, answer)
          IN  /\ pageLog' = Append(pageLog, [offset |-> offset,
                                             count  |-> page_size,
                                             raises |-> answer.raises,
                                             n      |-> Len(answer.features)])
              /\ sheet_no_list' = step.acc
              /\ offset' = step.off
              /\ messages' = messages \o step.msgs
              /\ log' = log \o step.logs
              /\ pc' = IF step.brk THEN "aggregate" ELSE "paging"
    /\ UNCHANGED <<service, object_id, polygon, catalogLog, httpLog, params>>

\* 5. Print count and mapsheet no: sets the derived outputs 5 and 6
PrintSheetNoCount ==
    /\ pc = "aggregate"
    /\ LET out == print_sheet_no_count(sheet_no_list)
       IN  params' = [params EXCEPT ![MAPSHEET_VALUE] = Some(out.sheets_str),
                                    ![MAPSHEET_COUNT] = Some(out.count_str)]
    /\ pc' = "done"
    /\ UNCHANGED <<service, object_id, polygon, sheet_no_list, offset, catalogLog,
                   httpLog, pageLog, messages, log>>

Next ==
    \/ Validate
    \/ Login
    \/ ImageryQuery
    \/ RetrieveGeometry
    \/ QueryPage
    \/ PrintSheetNoCount

Spec == Init /\ [][Next]_vars

----------------------------------------------------------------------------
(* The aggregator on its own: print_sheet_no_count on any accumulated list *)

\* lists of at most n sheet numbers
ListsUpTo(n) == UNION { [1..k -> ToSet(SheetCycle)] : k \in 0..n }

\* script_tool about to call print_sheet_no_count, after a run in which the
\* service answered the first request with one short page holding `list`
InitAgg ==
    /\ pc = "aggregate"
    /\ service = [kind |-> "any", N |-> 0, limit |-> 0]
    /\ object_id = Some(42)
    /\ polygon = Some(Polygon(Square, web_mercator_sr))
    /\ sheet_no_list \in ListsUpTo(MaxListLen)
    /\ offset = IF sheet_no_list = <<>> THEN 0 ELSE page_size
    /\ catalogLog = <<[raises |-> FALSE, has_features |-> TRUE, features |-> <<42>>]>>
    /\ httpLog = <<[raises |-> FALSE, status_code |-> HTTP_OK,
                    body |-> Body(TRUE, Json(TRUE, TRUE, <<Ring(TRUE, Square)>>))]>>
    /\ pageLog = <<[offset |-> 0, count |-> page_size, raises |-> FALSE,
                    n |-> Len(sheet_no_list)]>>
    /\ params = [i \in {MAPSHEET_VALUE, MAPSHEET_COUNT} |-> None]
    /\ messages = <<>>
    /\ log = login_to_gis(TRUE).logs
              \o imagery_query(catalogLog[1]).logs
              \o retrieve_and_build_geometry(httpLog[1]).logs

\* print_sheet_no_count called again, on the sorted list it produced
Resummarize ==
    /\ pc = "done"
    /\ LET out == print_sheet_no_count(Summarize(sheet_no_list).seq)
       IN  params' = [params EXCEPT ![MAPSHEET_VALUE] = Some(out.sheets_str),
                                    ![MAPSHEET_COUNT] = Some(out.count_str)]
    /\ pc' = "resummarized"
    /\ UNCHANGED <<service, object_id, polygon, sheet_no_list, offset, catalogLog,
                   httpLog, pageLog, messages, log>>

NextAgg ==
    \/ PrintSheetNoCount
    \/ Resummarize

SpecAgg == InitAgg /\ [][NextAgg]_vars

----------------------------------------------------------------------------
(* Properties *)

HasErrorMessage == \E i \in 1..Len(messages) : messages[i].sev = "error"
HasErrorLog == \E i \in 1..Len(log) : log[i].level = "ERROR"
HasMessage(text) == \E i \in 1..Len(messages) : messages[i].text = text
OutputsUnset == params[MAPSHEET_VALUE] = None /\ params[MAPSHEET_COUNT] = None
OutputsSet == params[MAPSHEET_VALUE] # None /\ params[MAPSHEET_COUNT] # None

\* perform_spatial_selection has returned to script_tool
Returned == pc = "aggregate" \/ (pc = "done" /\ pageLog # <<>>)

NoPageError == \A i \in 1..Len(pageLog) : ~pageLog[i].raises

\* the features of the pages the service answered with, in the order received
RECURSIVE PagesOf(_)
PagesOf(plog) ==
    IF plog = <<>> THEN <<>>
    ELSE IF plog[1].raises THEN PagesOf(Tail(plog))
    ELSE Records(plog[1].offset, plog[1].n) \o PagesOf(Tail(plog))

RECURSIVE SumCounts(_)
SumCounts(plog) ==
    IF plog = <<>> THEN 0 ELSE plog[1].n + SumCounts(Tail(plog))

\* C1: when no page request fails, no page request follows a page with fewer
\* than page_size features, and the returned accumulator is as long as the
\* sum of the feature counts of the pages received.
C1_StopsAtFirstShortPage ==
    NoPageError =>
        /\ \A i \in 1..Len(pageLog) : \A j \in 1..(i - 1) : pageLog[j].n >= page_size
        /\ Returned => Len(sheet_no_list) = SumCounts(pageLog)

C1_Witness ==
    /\ pc = "aggregate"
    /\ NoPageError
    /\ Len(pageLog) = 3
    /\ pageLog[1].n = page_size /\ pageLog[2].n = page_size
    /\ pageLog[3].n = page_size - 1
    /\ Len(sheet_no_list) = 3 * page_size - 1

\* C2: against a page-limited service holding N records, whatever its
\* per-request limit, the accumulator returned after error-free paging is the
\* full list of the N records in service order.
C2_ReturnsAllRecords ==
    (service.kind = "limited" /\ Returned /\ NoPageError)
        => sheet_no_list = Records(0, service.N)

\* C3: a failing page request is the last request, the loop returns the
\* values of the pages ingested before it, in received order, and the
\* exception does not reach the except clause of script_tool.
C3_ErrorReturnsIngestedPages ==
    \A i \in 1..Len(pageLog) :
        pageLog[i].raises =>
            /\ i = Len(pageLog)
            /\ Returned
            /\ sheet_no_list = PagesOf(SubSeq(pageLog, 1, i - 1))
            /\ ~HasMessage("Error during query execution")

C3_Witness ==
    /\ pc = "aggregate"
    /\ Len(pageLog) = 3
    /\ pageLog[3].raises
    /\ sheet_no_list = Records(0, 2 * page_size)

\* C4: when the first page has zero features the loop returns an empty
\* accumulator after exactly one request and nothing is reported or logged
\* as an error.
C4_EmptyFirstPage ==
    (pageLog # <<>> /\ ~pageLog[1].raises /\ pageLog[1].n = 0) =>
        /\ Len(pageLog) = 1
        /\ Returned
        /\ sheet_no_list = <<>>
        /\ ~HasErrorMessage
        /\ ~HasErrorLog

C4_Witness ==
    /\ pc = "aggregate"
    /\ Len(pageLog) = 1
    /\ ~pageLog[1].raises
    /\ pageLog[1].n = 0
    /\ sheet_no_list = <<>>

\* the catalog answered with an identifier, and script_tool holds it
ResolverReturnedId ==
    /\ catalogLog # <<>>
    /\ LET a == catalogLog[Len(catalogLog)]
       IN  ~a.raises /\ a.has_features /\ a.features # <<>>
           /\ object_id = Some(a.features[1])

\* the geometry endpoint answered 200 with a non-empty first ring, and
\* script_tool holds the polygon of that ring in EPSG:3857
FetcherReturnedPolygon ==
    /\ httpLog # <<>>
    /\ polygon # None
    /\ LET a == httpLog[Len(httpLog)]
           p == polygon[1]
       IN  /\ ~a.raises /\ a.status_code = HTTP_OK /\ a.body.parses
           /\ a.body.json.has_geometry /\ a.body.json.has_rings
           /\ a.body.json.rings # <<>>
           /\ Len(p.ring) > 0
           /\ Len(p.ring) = Len(a.body.json.rings[1].points)
           /\ p.sr = web_mercator_sr

\* C5: a page query is issued (or about to be issued) only in a run whose
\* resolver returned an identifier and whose fetcher returned a validated polygon.
C5_QueryOnlyWithPolygon ==
    (pc = "paging" \/ pageLog # <<>>) => (ResolverReturnedId /\ FetcherReturnedPolygon)

C5_Witness ==
    /\ pageLog # <<>>
    /\ ResolverReturnedId
    /\ FetcherReturnedPolygon

ResolutionError == \E i \in 1..Len(catalogLog) : catalogLog[i].raises
FetchError ==
    \E i \in 1..Len(httpLog) : ~httpLog[i].raises /\ httpLog[i].status_code # HTTP_OK
ParseError ==
    \E i \in 1..Len(httpLog) :
        ~httpLog[i].raises /\ httpLog[i].status_code = HTTP_OK /\ ~httpLog[i].body.parses
InvalidGeometry ==
    \E i \in 1..Len(httpLog) :
        LET a == httpLog[i]
            j == a.body.json
        IN  /\ ~a.raises /\ a.status_code = HTTP_OK /\ a.body.parses /\ j.has_geometry
            /\ \/ ~j.has_rings
               \/ j.rings = <<>>
               \/ ~j.rings[1].is_list
               \/ j.rings[1].points = <<>>

\* C6: after a catalog query error, a non-200 geometry response, an
\* unparseable body or an invalid geometry the run is over, no page query
\* is issued and neither output is set.
C6_FailuresAbort ==
    (ResolutionError \/ FetchError \/ ParseError \/ InvalidGeometry) =>
        (pc = "done" /\ pageLog = <<>> /\ OutputsUnset)

C6_Witness ==
    /\ pc = "done"
    /\ FetchError
    /\ httpLog[1].status_code = 500
    /\ httpLog[1].body.parses
    /\ HasMessage("Failed to retrieve data from the URL.")
    /\ OutputsUnset

NotFound ==
    /\ catalogLog # <<>>
    /\ ~catalogLog[1].raises /\ catalogLog[1].has_features /\ catalogLog[1].features = <<>>

\* C7: when the catalog returns zero features the run ends with the
\* informational "no valid identifier" message, no geometry request, no
\* page query, no output and no error.
C7_NotFoundIsClean ==
    NotFound =>
        /\ pc = "done"
        /\ HasMessage("No valid OBJECTID found. Exiting without further processing.")
        /\ httpLog = <<>>
        /\ pageLog = <<>>
        /\ OutputsUnset
        /\ ~HasErrorMessage
        /\ ~HasErrorLog

C7_Witness ==
    /\ NotFound
    /\ pc = "done"
    /\ messages[Len(messages)].sev = "info"

\* C8: an exception of the catalog query is not reported as "not found": the
\* error is reported and logged, the run is over and no later stage ran.
C8_ResolutionErrorPropagates ==
    ResolutionError =>
        /\ pc = "done"
        /\ ~HasMessage("No valid OBJECTID found. Exiting without further processing.")
        /\ ~HasMessage("No results found for the given image name.")
        /\ HasMessage("Error during query execution")
        /\ HasErrorLog
        /\ object_id = None
        /\ httpLog = <<>>
        /\ pageLog = <<>>
        /\ OutputsUnset

C8_Witness ==
    /\ ResolutionError
    /\ pc = "done"
    /\ HasErrorMessage

PageError == \E i \in 1..Len(pageLog) : pageLog[i].raises

\* C9: after a page-query error the run goes on to the aggregation stage,
\* which sets both outputs from the values of the pages received before the
\* failing one; the failure is logged at error level and does not reach the
\* except clause of script_tool.
C9_PageErrorKeepsPartialResult ==
    PageError =>
        /\ pc \in {"aggregate", "done"}
        /\ pc = "done" =>
              LET out == print_sheet_no_count(PagesOf(pageLog))
              IN  /\ params[MAPSHEET_VALUE] = Some(out.sheets_str)
                  /\ params[MAPSHEET_COUNT] = Some(out.count_str)
        /\ \E i \in 1..Len(log) :
              log[i].level = "ERROR" /\ log[i].event = "Error during paged query for SHEET_NO"
        /\ ~HasMessage("Error during query execution")

C9_Witness ==
    /\ pc = "done"
    /\ Len(pageLog) = 2
    /\ pageLog[2].raises
    /\ pageLog[1].n = page_size
    /\ OutputsSet
    /\ params[MAPSHEET_COUNT] = Some(Str(5))

Sheets == ToSet(SheetCycle)

\* str is "[" + ", ".join(l) + "]" for a strictly ascending list l of k sheets
SortedBracketed(str, k) ==
    \E l \in [1..k -> Sheets] :
        /\ \A i \in 1..(k - 1) : StrLess(l[i], l[i + 1])
        /\ str = <<91>> \o Join(<<44, 32>>, l) \o <<93>>

\* outcome (a): a sorted bracketed list and its count are the outputs
ListAndCount ==
    /\ OutputsSet
    /\ \E k \in 0..Cardinality(Sheets) :
          /\ SortedBracketed(params[MAPSHEET_VALUE][1], k)
          /\ params[MAPSHEET_COUNT] = Some(Str(k))

\* outcome (b): the "no results" message and no output
NoResults ==
    /\ HasMessage("No valid OBJECTID found. Exiting without further processing.")
    /\ OutputsUnset

\* outcome (c): an error and no output
ErrorReported == HasErrorMessage \/ HasErrorLog
ErrorOnly == ErrorReported /\ OutputsUnset

\* the only errors reported are those of a failed page request
OnlyPageErrorReported ==
    /\ PageError
    /\ \A i \in 1..Len(messages) :
          messages[i].sev = "error" => messages[i].text = "Error during paged query for SHEET_NO"
    /\ \A i \in 1..Len(log) :
          log[i].level = "ERROR" => log[i].event = "Error during paged query for SHEET_NO"

\* C10 as stated: a terminated run shows exactly one of (a) list and count
\* set, (b) "no results" message without outputs, (c) an error without
\* outputs; no run reports an error and sets an output.
C10_ThreeOutcomes ==
    pc = "done" =>
        /\ \/ ListAndCount /\ ~ErrorReported
           \/ NoResults /\ ~ErrorReported
           \/ ErrorOnly
        /\ ~(ErrorReported /\ ~OutputsUnset)

\* C10 amended: a terminated run shows exactly one of (a) list and count set
\* and no error, (a') list and count set and the only error reported is that
\* of the failed page request, (b) "no results" message without outputs and
\* without error, (c) an error without outputs.
C10_FourOutcomes ==
    pc = "done" =>
        LET a  == ListAndCount /\ ~ErrorReported
            a2 == ListAndCount /\ ErrorReported /\ OnlyPageErrorReported
            b  == NoResults /\ ~ErrorReported
            c  == ErrorOnly
        IN  /\ a \/ a2 \/ b \/ c
            /\ ~(a /\ a2) /\ ~(a /\ b) /\ ~(a /\ c)
            /\ ~(a2 /\ b) /\ ~(a2 /\ c) /\ ~(b /\ c)

C10_Witness ==
    /\ pc = "done"
    /\ ListAndCount
    /\ ErrorReported
    /\ OnlyPageErrorReported
    /\ params[MAPSHEET_COUNT] = Some(Str(5))

\* the geometry payloads named by C11: no "rings" field, an empty rings
\* list, a first ring with zero points
RingsMissingOrEmpty(a) ==
    /\ ~a.raises /\ a.status_code = HTTP_OK /\ a.body.parses /\ a.body.json.has_geometry
    /\ \/ ~a.body.json.has_rings
       \/ a.body.json.rings = <<>>
       \/ a.body.json.rings[1].is_list /\ a.body.json.rings[1].points = <<>>

\* C11: for a payload without rings field, with an empty rings list or with
\* an empty first ring the geometry builder reports the invalid-geometry
\* error and returns None: no polygon is held and no exception escaped.
C11_InvalidGeometryNoPolygon ==
    \A i \in 1..Len(httpLog) :
        RingsMissingOrEmpty(httpLog[i]) =>
            /\ polygon = None
            /\ HasMessage("Error: Invalid ring geometry format.")
            /\ ~HasMessage("Error during query execution")
            /\ pc = "done"
            /\ pageLog = <<>>

C11_Witness ==
    /\ pc = "done"
    /\ httpLog # <<>>
    /\ RingsMissingOrEmpty(httpLog[1])
    /\ ~httpLog[1].body.json.has_rings
    /\ polygon = None
    /\ HasMessage("Error: Invalid ring geometry format.")

\* an error-level log entry that carries context
ErrorEntryWithContext == \E i \in 1..Len(log) : log[i].level = "ERROR" /\ log[i].ctx # {}

\* C12: every failure of a run (catalog resolution error, geometry fetch
\* error, body parse error, invalid geometry, page-query error) leaves an
\* error-level entry with context in the log, and the entry of a page-query
\* error names the page offset.
C12_EveryFailureLogged ==
    /\ (ResolutionError \/ FetchError \/ ParseError \/ InvalidGeometry \/ PageError)
          => ErrorEntryWithContext
    /\ PageError =>
          \E i \in 1..Len(log) :
              /\ log[i].level = "ERROR"
              /\ log[i].event = "Error during paged query for SHEET_NO"
              /\ "offset" \in log[i].ctx

\* the member of the set S of str that has exactly i - 1 members below it
Ranked(S, i) == CHOOSE x \in S : Cardinality({y \in S : StrLess(y, x)}) = i - 1

\* the members of S in ascending order, each once
Ascending(S) == [i \in 1..Cardinality(S) |-> Ranked(S, i)]

\* C13: the list output is the bracketed, comma-separated sequence of the
\* distinct accumulated values in ascending order, each once, and the count
\* output is the number of distinct values (not the length of the list).
C13_UniqueSortedAndCount ==
    pc = "done" =>
        LET S == ToSet(sheet_no_list)
        IN  /\ params[MAPSHEET_VALUE] = Some(<<91>> \o Join(<<44, 32>>, Ascending(S)) \o <<93>>)
            /\ params[MAPSHEET_COUNT] = Some(<<48 + Cardinality(S)>>)

C13_Witness ==
    /\ pc = "done"
    /\ sheet_no_list = <<T48N, T47N, T47N, T49N, T48N>>
    /\ params[MAPSHEET_VALUE] = Some(<<91>> \o T47N \o <<44, 32>> \o T48N \o <<44, 32>> \o T49N \o <<93>>)
    /\ params[MAPSHEET_COUNT] = Some(<<51>>)

\* C14: summarizing the sequence produced by a summary gives the same
\* (sequence, count) pair, and print_sheet_no_count applied to that sequence
\* sets both outputs to the values they already have.
C14_Idempotent ==
    [][pc' = "resummarized" =>
          /\ params' = params
          /\ Summarize(Summarize(sheet_no_list).seq) = Summarize(sheet_no_list)]_vars

C14_Witness ==
    /\ pc = "resummarized"
    /\ sheet_no_list = <<T48N, T47N, T47N, T49N, T48N>>
    /\ params[MAPSHEET_COUNT] = Some(<<51>>)

\* a payload whose rings field is non-empty and whose first ring is a
\* non-empty list of coordinate pairs
WellFormedRings(a) ==
    /\ ~a.raises /\ a.status_code = HTTP_OK /\ a.body.parses
    /\ a.body.json.has_geometry /\ a.body.json.has_rings
    /\ a.body.json.rings # <<>>
    /\ a.body.json.rings[1].is_list
    /\ a.body.json.rings[1].points # <<>>

\* C15: for a well-formed payload the polygon returned has one ring, whose
\* points are the coordinates of the payload's first ring in the same order,
\* and carries the spatial reference 3857.
C15_PolygonMatchesFirstRing ==
    \A n \in 1..Len(httpLog) :
        WellFormedRings(httpLog[n]) =>
            /\ polygon # None
            /\ LET p      == polygon[1]
                   coords == httpLog[n].body.json.rings[1].points
               IN  /\ DOMAIN p = {"ring", "sr"}
                   /\ Len(p.ring) = Len(coords)
                   /\ \A i \in 1..Len(coords) :
                         p.ring[i].X = coords[i][1] /\ p.ring[i].Y = coords[i][2]
                   /\ p.sr = 3857

C15_Witness ==
    /\ httpLog # <<>>
    /\ WellFormedRings(httpLog[1])
    /\ Len(httpLog[1].body.json.rings) = 2
    /\ polygon # None
    /\ Len(polygon[1].ring) = 3
    /\ polygon[1].ring[2] = [X |-> 5, Y |-> 1]

\* the number of non-empty pages among the first k answers
RECURSIVE Ingested(_, _)
Ingested(plog, k) ==
    IF k = 0 THEN 0
    ELSE Ingested(plog, k - 1) + (IF ~plog[k].raises /\ plog[k].n > 0 THEN 1 ELSE 0)

\* every request carries page_size times the number of pages ingested
\* before it, and so does the cursor
OffsetFollowsPages ==
    /\ \A i \in 1..Len(pageLog) :
          pageLog[i].offset = page_size * Ingested(pageLog, i - 1)
    /\ offset = page_size * Ingested(pageLog, Len(pageLog))

\* a step never lowers the offset; the step of a page request raises it by
\* page_size when the page is non-empty and leaves it otherwise
OffsetStep ==
    /\ offset' >= offset
    /\ pageLog' # pageLog =>
          LET e == pageLog'[Len(pageLog')]
          IN  offset' = IF ~e.raises /\ e.n > 0 THEN offset + page_size ELSE offset

\* C16: the first page request uses offset 0 and every later one page_size
\* times the number of pages already ingested; the offset grows by exactly
\* page_size after each non-empty page, never decreases, and stays as it is
\* after an empty page or a failed request.
C16_OffsetAdvance == []OffsetFollowsPages /\ [][OffsetStep]_vars

C16_Witness ==
    /\ pc = "aggregate"
    /\ Len(pageLog) = 3
    /\ pageLog[1].offset = 0
    /\ pageLog[2].offset = page_size
    /\ pageLog[3].offset = 2 * page_size
    /\ ~pageLog[3].raises /\ pageLog[3].n = 1
    /\ offset = 3 * page_size

\* the number of identifiers in a bracketed, comma-separated list string
ItemCount(str) ==
    IF Len(str) = 2 THEN 0
    ELSE 1 + Cardinality({i \in 1..Len(str) : str[i] = 44})

\* the outputs are both set or both unset; they are set only once the
\* pagination loop has made its last request and returned; the count output
\* is the decimal form of the number of identifiers in the list output
OutputsConsistent ==
    /\ (params[MAPSHEET_VALUE] = None) <=> (params[MAPSHEET_COUNT] = None)
    /\ OutputsSet =>
          /\ pc = "done"
          /\ pageLog # <<>>
          /\ LET e == pageLog[Len(pageLog)] IN e.raises \/ e.n < page_size
          /\ params[MAPSHEET_COUNT] = Some(Str(ItemCount(params[MAPSHEET_VALUE][1])))

\* once set, the outputs are not set again
OutputsSetOnce == OutputsSet => params' = params

\* C17: in every run the two outputs are set together or not at all, at most
\* once and only after the pagination loop has returned, and the count
\* output equals the number of identifiers in the list output.
C17_OutputsTogetherOnce == []OutputsConsistent /\ [][OutputsSetOnce]_vars

C17_Witness ==
    /\ pc = "done"
    /\ OutputsSet
    /\ Len(pageLog) = 2
    /\ ItemCount(params[MAPSHEET_VALUE][1]) = 5
    /\ params[MAPSHEET_COUNT] = Some(<<53>>)

====
